---------------------------- MODULE Spec2Model ----------------------------
(***************************************************************************)
(* Verification model of rlucine/creature-evolution.                       *)
(*                                                                         *)
(* Each subsystem is modelled with its own specification:                  *)
(*   SpecCreature : the creature domain model of src/src/creature.c        *)
(*                  (second revision in the file, lines 578-1372) with the *)
(*                  header src/unnamed/part_003 (creature.h).              *)
(*   SpecMotion   : the simulation of creature.c: creature_Update,         *)
(*                  creature_Animate, creature_Rest and creature_Reset.    *)
(*   SpecMuscle   : the target lengths of one muscle.                      *)
(*   SpecGenetic  : the generic genetic engine of src/src/genetic.c        *)
(*                  (lines 1-172) with src/src/genetic.h.                  *)
(*   SpecSelect   : one generation of the engine on larger populations.    *)
(*   SpecBehavior : the behavior of a creature (MOTION) under              *)
(*                  creature_CreateRandom, creature_Mutate, creature_Breed *)
(*   SpecFitness  : creature_Fitness and WalkFitness on the simulation;    *)
(*                  SpecFitnessFair adds that the evaluation keeps running *)
(* Floating point values are represented by small integers; the capacities *)
(* MIN_NODES, MAX_NODES and MAX_MUSCLES are scaled down.                   *)
(***************************************************************************)
EXTENDS Integers, Sequences, FiniteSets, TLC

VARIABLES
    creature,   \* the CREATURE record the operations act on
    pending,    \* mutation passes the running creature_Breed still has to do
    evaluated,  \* history: the value the last creature_Fitness returned, if the
                \* creature was not changed since
    lastOp,     \* history: the operation that produced the current state
    vitals      \* CREATURE.clock and CREATURE.energy of the creature

cvars == <<creature, pending, evaluated, lastOp, vitals>>

VARIABLES
    pc,             \* position of the driver in the genetic engine
    caller,         \* who called the running genetic_Generation
    populationSize, \* GENETIC.populationSize
    entitySize,     \* GENETIC.entitySize
    entities,       \* the bytes of the buffer GENETIC.entities
    newborn,        \* the bytes of the buffer GENETIC.newborn
    heap,           \* GENETIC.heap: the elements (payload, priority) it holds
    best,           \* GENETIC.best, as a byte offset into entities, or NULL
    bestFitness,    \* GENETIC.bestFitness
    n,              \* the loop counter n of genetic_Generation
    buffers,        \* allocation state of the three buffers
    solve,          \* the locals of genetic_Solve and its result
    seeded,         \* history: calls of the random callback made by genetic_Create
    scored,         \* history: the least fitness scored in this generation and
                    \* the slots that scored it
    parents,        \* history: slots popped as parents in this generation
    killed,         \* history: slots overwritten by offspring, in order
    randomized,     \* history: slots overwritten by random individuals
    prevBest,       \* history: bestFitness as the previous generation left it
    born,           \* history: newborn indices written by breed in this generation
    replaced,       \* history: the scores of the slots offspring replaced so far,
                    \* while the replacement loop runs
    clobbered,      \* history: a write of this generation changed the content
                    \* of a slot that bred in it
    spilled         \* history: a write of this generation to one slot changed
                    \* the content of another slot

gvars == <<pc, caller, populationSize, entitySize, entities, newborn, heap, best,
           bestFitness, n, buffers, solve, seeded, scored, parents, killed,
           randomized, prevBest, born, replaced, clobbered, spilled>>

VARIABLES
    body,       \* the fields of a creature the simulation changes: clock,
                \* energy, the isContracted flags, the behavior and one node
    motionOp    \* history: the last operation on body and what it did

mvars == <<body, motionOp>>

VARIABLES
    lengths,    \* MUSCLE.contracted and MUSCLE.extended of one muscle
    lengthOp    \* history: the operation that last wrote lengths

lvars == <<lengths, lengthOp>>

VARIABLES
    program,    \* CREATURE.nNodes, CREATURE.nMuscles and CREATURE.behavior.action
    programOp   \* history: the operation that produced program

bvars == <<program, programOp>>

VARIABLES
    walk        \* the position of creature_Fitness and WalkFitness on body:
                \* where it is, the trial, the memo, and as history what the
                \* last creature_Rest returned and how often it was called
                \* (counted modulo MaxRests + 1)

wvars == <<walk>>

vars == <<cvars, gvars, mvars, lvars, bvars, wvars>>

\* the variables of the other subsystems
outsideCreature == <<gvars, mvars, lvars, bvars, wvars>>
outsideGenetic == <<cvars, mvars, lvars, bvars, wvars>>
outsideMotion == <<cvars, gvars, lvars, bvars, wvars>>
outsideMuscle == <<cvars, gvars, mvars, bvars, wvars>>
outsideBehavior == <<cvars, gvars, mvars, lvars, wvars>>
outsideFitness == <<cvars, gvars, lvars, bvars, motionOp>>

(***************************************************************************)
(* Constants of creature.h / creature.c                                    *)
(***************************************************************************)
MIN_NODES == 2
MAX_NODES == 3
MAX_MUSCLES == 3
MAX_MUTATIONS == 4
N_MUTATIONS == 10
FITNESS_INVALID == -1

\* Largest magnitude of a fitness value (floats are represented by integers).
MaxFitness == 1
FitnessValues == (0 - MaxFitness)..MaxFitness

\* enum MUTATION
NODE_ADD == 0
NODE_REMOVE == 1
NODE_POSITION == 2
NODE_FRICTION == 3
MUSCLE_ANCHOR == 4
MUSCLE_EXTENDED == 5
MUSCLE_CONTRACTED == 6
MUSCLE_STRENGTH == 7
MUSCLE_ADD == 8
MUSCLE_REMOVE == 9
BEHAVIOR_ADD == 10
BEHAVIOR_REMOVE == 11

\* randint(lo, hi): any integer of lo..hi
randint(lo, hi) == lo..hi

(***************************************************************************)
(* MUSCLE: the endpoints first and second.  muscles is the populated       *)
(* prefix muscles[0..nMuscles-1] of the fixed-capacity array; slots at or  *)
(* beyond nMuscles are never read before they are generated again.         *)
(***************************************************************************)
Muscle(f, s) == [first |-> f, second |-> s]

\* the ban on self-edges shared by GenerateMuscle and creature_Mutate
NoSelfEdge(m, count) ==
    IF m.first = m.second
    THEN [m EXCEPT !.second = (m.second + 1) % count]
    ELSE m

\* fault injection for C17: both endpoints are drawn at random at every index
GenerateAnyMuscle(c, index) ==
    {NoSelfEdge(Muscle(f, s), c.nNodes) : f \in randint(0, c.nNodes - 1),
                                          s \in randint(0, c.nNodes - 1)}

\* GenerateMuscle(creature, index): the muscles it can generate at index
GenerateMuscle(c, index) ==
    LET drawn == IF index < c.nNodes
                 THEN IF index > 0
                      THEN {Muscle(index, s) : s \in randint(0, index - 1)}
                      ELSE {Muscle(index, 0)}
                 ELSE {Muscle(f, s) : f \in randint(0, c.nNodes - 1),
                                      s \in randint(0, c.nNodes - 1)}
    IN  {NoSelfEdge(m, c.nNodes) : m \in drawn}

\* the loop "for i < nMuscles: GenerateMuscle(creature, i)" of creature_CreateRandom
RECURSIVE GenerateMuscles(_, _)
GenerateMuscles(c, i) ==
    IF i >= c.nMuscles THEN {c}
    ELSE UNION {GenerateMuscles(
                    [c EXCEPT !.muscles = [k \in 0..i |->
                                  IF k = i THEN m ELSE c.muscles[k]]], i + 1)
                : m \in GenerateMuscle(c, i)}

\* creature_CreateRandom: every creature it can produce
CreateRandom ==
    UNION {UNION {GenerateMuscles([nNodes |-> nNodes, nMuscles |-> nMuscles,
                                   muscles |-> [i \in {} |-> Muscle(0, 0)],
                                   fitness |-> FITNESS_INVALID], 0)
                  : nMuscles \in randint(nNodes, MAX_MUSCLES)}
           : nNodes \in randint(MIN_NODES, MAX_NODES)}

\* fault injection for C3: a FixMuscles that repairs nothing
KeepMuscles(c) == c

\* FixMuscles: remap the endpoints that point at nodes that no longer exist
FixMuscles(c) ==
    [c EXCEPT !.muscles = [i \in DOMAIN c.muscles |->
        LET m == c.muscles[i] IN
        IF m.first >= c.nNodes \/ m.second >= c.nNodes
        THEN NoSelfEdge(Muscle(m.first % c.nNodes, m.second % c.nNodes), c.nNodes)
        ELSE m]]

\* the switch of creature_Mutate: the results of one mutation kind.  The
\* kinds that only change node positions, friction, muscle lengths, strength
\* or the behavior leave the fields represented here as they are.
ApplyMutation(c, mutation) ==
    CASE mutation = NODE_ADD ->
            {IF c.nNodes < MAX_NODES THEN [c EXCEPT !.nNodes = @ + 1] ELSE c}
      [] mutation = NODE_REMOVE ->
            {FixMuscles(IF c.nNodes > MIN_NODES
                        THEN [c EXCEPT !.nNodes = @ - 1] ELSE c)}
      [] mutation = MUSCLE_ANCHOR ->
            {[c EXCEPT !.muscles[i] =
                  NoSelfEdge([@ EXCEPT !.second = s], c.nNodes)]
             : i \in randint(0, c.nMuscles - 1), s \in randint(0, c.nNodes - 1)}
      [] mutation = MUSCLE_ADD ->
            IF c.nMuscles < MAX_MUSCLES
            THEN {[c EXCEPT !.nMuscles = @ + 1,
                            !.muscles = [i \in 0..c.nMuscles |->
                                IF i = c.nMuscles THEN m ELSE c.muscles[i]]]
                  : m \in GenerateMuscle(c, c.nMuscles)}
            ELSE {c}
      [] mutation = MUSCLE_REMOVE ->
            {IF c.nMuscles > c.nNodes
             THEN [c EXCEPT !.nMuscles = @ - 1,
                            !.muscles = [i \in 0..(c.nMuscles - 2) |-> c.muscles[i]]]
             ELSE c}
      [] OTHER -> {c}

\* creature_Mutate: every creature one call can turn c into
Mutate(c) ==
    UNION {ApplyMutation(c, mutation) : mutation \in randint(0, N_MUTATIONS - 1)}

\* what a read of muscle slot i of parent p yields: an unpopulated slot is
\* marked by the endpoints -1
ReadMuscle(p, i) ==
    IF i < p.nMuscles THEN p.muscles[i] ELSE Muscle(-1, -1)

\* fault injection for C30: the coin alone selects the parent
SelectedByCoin(mother, father, coin, i, nMother, nFather) ==
    IF coin = 0 THEN mother ELSE father

\* the parent a slot is inherited from (lines 960 and 975); coin is randint(0, 1)
Selected(mother, father, coin, i, nMother, nFather) ==
    IF (coin = 0 /\ i < nMother) \/ i >= nFather THEN mother ELSE father

\* fault injection for C15: the child takes nNodes from one parent and
\* nMuscles from the other
InheritMixed(mother, father) ==
    {[nNodes |-> mother.nNodes, nMuscles |-> father.nMuscles,
      muscles |-> [i \in 0..(father.nMuscles - 1) |-> father.muscles[i]],
      fitness |-> FITNESS_INVALID]}

\* creature_Breed, lines 943-985: every child the inheritance from mother
\* and father can produce, before its muscles are fixed
Inherit(mother, father) ==
    UNION {{[nNodes |-> p.nNodes, nMuscles |-> p.nMuscles,
             muscles |-> [i \in 0..(p.nMuscles - 1) |->
                 ReadMuscle(Selected(mother, father, coin[i], i,
                            mother.nMuscles, father.nMuscles), i)],
             fitness |-> FITNESS_INVALID]
            : coin \in [0..(p.nMuscles - 1) -> randint(0, 1)]}
           : p \in {mother, father}}

\* creature_Breed, lines 957-968: for some outcome of the coins a node slot
\* of the first count is copied from a parent that has no such node
UnpopulatedNode(mother, father, count) ==
    \E i \in 0..(count - 1), coin \in randint(0, 1) :
        Selected(mother, father, coin, i, mother.nNodes, father.nNodes).nNodes <= i

\* creature_Breed, lines 972-985: a muscle slot of the child was copied from
\* a parent that has no such muscle
UnpopulatedMuscle(child) ==
    \E i \in DOMAIN child.muscles : child.muscles[i] = Muscle(-1, -1)

\* a muscle of c points at a node that does not exist
Dangling(c) ==
    \E i \in DOMAIN c.muscles :
        c.muscles[i].first >= c.nNodes \/ c.muscles[i].second >= c.nNodes

\* The creatures CreateRandom and Mutate produce, as parents for Breed.
RECURSIVE MutateClosure(_)
MutateClosure(S) ==
    LET T == S \cup UNION {Mutate(c) : c \in S}
    IN  IF T = S THEN S ELSE MutateClosure(T)

Parents == MutateClosure(CreateRandom)

\* the creature without its fitness memo
Genome(c) == [c EXCEPT !.fitness = FITNESS_INVALID]

(***************************************************************************)
(* Operations on the creature                                              *)
(***************************************************************************)
NotEvaluated == [valid |-> FALSE, value |-> 0]

\* the greatest energy a buffer holds that was not written since it was
\* allocated or last used
MaxStale == 1

\* CREATURE.clock and CREATURE.energy
Vitals(clock, energy) == [clock |-> clock, energy |-> energy]

\* history of an operation; for creature_Breed also the counts of the two
\* parents (from), whether a mutation pass has run (mutated) and whether a
\* slot was copied from a parent that does not have it (unpopulated)
Op(name, kind, before, dangling, changed) ==
    [op |-> name, kind |-> kind, memo |-> before, dangling |-> dangling,
     changed |-> changed, ret |-> 0, ran |-> FALSE, again |-> FALSE, prev |-> 0,
     from |-> {}, mutated |-> FALSE, unpopulated |-> FALSE]

\* nNodes and nMuscles of a creature
Counts(c) == <<c.nNodes, c.nMuscles>>

\* the creature after creature_CreateRandom
NewCreature ==
    /\ creature \in CreateRandom
    /\ pending = 0
    /\ evaluated = NotEvaluated
    /\ lastOp = Op("CreateRandom", -1, FITNESS_INVALID, FALSE, FALSE)
    /\ vitals = Vitals(0, 0)

creature_CreateRandom ==
    /\ pending = 0
    /\ creature' \in CreateRandom
    /\ vitals' = Vitals(0, 0)
    /\ evaluated' = NotEvaluated
    /\ lastOp' = Op("CreateRandom", -1, creature.fitness, FALSE, TRUE)
    /\ UNCHANGED pending
    /\ UNCHANGED outsideCreature

creature_Mutate ==
    /\ pending = 0
    /\ \E mutation \in randint(0, N_MUTATIONS - 1) :
          /\ creature' \in ApplyMutation(creature, mutation)
          /\ lastOp' = Op("Mutate", mutation, creature.fitness,
                          /\ mutation = NODE_REMOVE
                          /\ creature.nNodes > MIN_NODES
                          /\ Dangling([creature EXCEPT !.nNodes = @ - 1]),
                          Genome(creature') # Genome(creature))
    /\ evaluated' = NotEvaluated
    /\ UNCHANGED <<pending, vitals>>
    /\ UNCHANGED outsideCreature

\* creature_Breed, lines 951 and 954: the clock is set to 0; the energy is
\* not written and is what the child buffer held, stale
BreedVitals(stale) == Vitals(0, stale)

\* creature_Breed, lines 943-988, with the creature c as one parent and
\* any creature of Parents as the other: the children with their muscles
\* fixed, and as history whether a muscle dangled and the parents' counts
BreedOutcomes(c) ==
    UNION {{[child |-> FixMuscles(child), dangling |-> Dangling(child),
             from |-> {Counts(c), Counts(mate)},
             unpopulated |-> \/ UnpopulatedMuscle(child)
                             \/ UnpopulatedNode(c, mate, child.nNodes)
                             \/ UnpopulatedNode(mate, c, child.nNodes)]
            : child \in Inherit(Genome(c), mate) \cup Inherit(mate, Genome(c))}
           : mate \in Parents}

\* creature_Breed, lines 939-1002: the child replaces the creature, which
\* is one of the parents; the other parent is any creature of Parents
creature_Breed ==
    /\ pending = 0
    /\ \E outcome \in BreedOutcomes(creature) :
          /\ creature' = outcome.child
          /\ lastOp' = [Op("Breed", -1, creature.fitness, outcome.dangling, TRUE)
                          EXCEPT !.from = outcome.from,
                                 !.unpopulated = outcome.unpopulated]
    /\ pending' \in randint(0, MAX_MUTATIONS)
    /\ evaluated' = NotEvaluated
    /\ \E stale \in 0..MaxStale : vitals' = BreedVitals(stale)
    /\ UNCHANGED outsideCreature

\* creature_Breed, lines 1003-1005: one pass of the mutation loop
creature_BreedMutate ==
    /\ pending > 0
    /\ creature' \in Mutate(creature)
    /\ pending' = pending - 1
    /\ lastOp' = [lastOp EXCEPT !.mutated = TRUE]
    /\ UNCHANGED <<evaluated, vitals>>
    /\ UNCHANGED outsideCreature

\* WalkFitness: the outcome of the simulation, some fitness value
WalkFitness(c) == FitnessValues

\* creature_Fitness: creature_Reset zeroes the clock and the energy, and
\* WalkFitness, when it runs, leaves a clock > 0 and some energy
creature_Fitness ==
    /\ pending = 0
    /\ IF creature.fitness # FITNESS_INVALID
       THEN /\ lastOp' = [Op("Fitness", -1, creature.fitness, FALSE, FALSE)
                            EXCEPT !.ret = creature.fitness, !.ran = FALSE,
                                   !.again = evaluated.valid,
                                   !.prev = evaluated.value]
            /\ evaluated' = [valid |-> TRUE, value |-> creature.fitness]
            /\ vitals' = Vitals(0, 0)
            /\ UNCHANGED creature
       ELSE \E fitness \in WalkFitness(creature) :
            /\ creature' = [creature EXCEPT !.fitness = fitness]
            /\ lastOp' = [Op("Fitness", -1, creature.fitness, FALSE, FALSE)
                            EXCEPT !.ret = fitness, !.ran = TRUE,
                                   !.again = evaluated.valid,
                                   !.prev = evaluated.value]
            /\ evaluated' = [valid |-> TRUE, value |-> fitness]
            /\ \E energy \in 0..MaxStale : vitals' = Vitals(1, energy)
    /\ UNCHANGED pending
    /\ UNCHANGED outsideCreature

NextCreature ==
    \/ creature_CreateRandom
    \/ creature_Mutate
    \/ creature_Breed
    \/ creature_BreedMutate
    \/ creature_Fitness

(***************************************************************************)
(* The simulation of one creature: creature_Reset, creature_Update,        *)
(* creature_Rest and creature_Animate.  Durations and the clock are in     *)
(* ticks; the creature has MIN_NODES muscles and its node 0 is followed:   *)
(* height y, vertical velocity vy, and whether it moves horizontally.      *)
(***************************************************************************)
TIME_STEP == 2
ACTION_TIME == 3
MAX_ACTIONS == 2
BEHAVIOR_TIME == MAX_ACTIONS * ACTION_TIME
MAX_ENERGY == 2
MUSCLE_NONE == 255
GRAVITY == -2

\* the longest duration passed to an operation, the clock and the energy
\* beyond which only creature_Reset goes on, the greatest initial height
MaxDt == 6
MaxClock == 3
MaxSpent == 2
MaxHeight == 1

Muscles == 0..(MIN_NODES - 1)
Relaxed == [i \in Muscles |-> FALSE]

\* fabs(forceMagnitude) of muscle i: some value >= 0 fixed by the state
ForceMagnitude(b, i) == i + 1

\* velocity.y *= -RESTITUTION, RESTITUTION being 0.6
Bounce(v) == 0 - ((3 * v) \div 5)

\* fault injection for C11: energy is charged for every muscle
ChargeAll(b) == Muscles

\* the muscles creature_UpdateFull charges energy for (line 1070)
Charged(b) == {i \in Muscles : b.contracted[i]}

RECURSIVE SumForce(_, _)
SumForce(b, S) ==
    IF S = {} THEN 0
    ELSE LET i == CHOOSE x \in S : TRUE
         IN  ForceMagnitude(b, i) + SumForce(b, S \ {i})

\* creature_UpdateFull(creature, dt): one physics step.  The integrator of
\* integral.h is taken to be exact for the constant gravity.
UpdateFull(b, dt) ==
    LET vy1 == b.vy + GRAVITY * dt
        y1 == b.y + b.vy * dt + (GRAVITY * dt * dt) \div 2
        collides == y1 <= 0
    IN  [b EXCEPT !.energy = @ + dt * SumForce(b, Charged(b)),
                  !.worked = @ \/ (\E i \in Muscles : b.contracted[i]),
                  !.moving = IF dt = 0 THEN @
                             ELSE IF Charged(b) # {} THEN TRUE
                             ELSE IF b.y = 0 THEN FALSE
                             ELSE @,
                  !.y = IF collides THEN 0 ELSE y1,
                  !.vy = IF collides THEN Bounce(vy1) ELSE vy1]

\* the loop of creature_Update: fullSteps steps of TIME_STEP
RECURSIVE UpdateSteps(_, _)
UpdateSteps(b, fullSteps) ==
    IF fullSteps <= 0 THEN b
    ELSE UpdateSteps(UpdateFull(b, TIME_STEP), fullSteps - 1)

\* creature_Update(creature, dt)
Update(b, dt) ==
    UpdateFull(UpdateSteps(b, dt \div TIME_STEP), dt % TIME_STEP)

\* creature_Reset(creature)
Reset(b) ==
    [b EXCEPT !.clock = 0, !.energy = 0, !.contracted = Relaxed,
              !.y = b.initial, !.vy = 0, !.moving = FALSE]

\* what creature_Animate has done: the creature, the action slots it
\* triggered, and as history whether it toggled a muscle while the energy
\* was above MAX_ENERGY
Animated(b, trace, late) == [body |-> b, trace |-> trace, late |-> late]

\* creature_Animate, lines 1167-1188: the loop over the actions
RECURSIVE AnimateLoop(_, _, _, _)
AnimateLoop(r, animationIndex, fullActions, timeAfter) ==
    IF fullActions < 0 THEN r
    ELSE LET b == r.body
             action == b.action[animationIndex]
             toggled == IF action # MUSCLE_NONE
                        THEN [b EXCEPT !.contracted[action] = ~@]
                        ELSE b
             stepped == IF fullActions > 0
                        THEN [Update(toggled, ACTION_TIME) EXCEPT !.clock = @ + ACTION_TIME]
                        ELSE IF timeAfter # 0
                        THEN [Update(toggled, timeAfter) EXCEPT !.clock = @ + timeAfter]
                        ELSE toggled
         IN  AnimateLoop(Animated(stepped, Append(r.trace, animationIndex),
                                  r.late \/ (action # MUSCLE_NONE /\ b.energy > MAX_ENERGY)),
                         (animationIndex + 1) % MAX_ACTIONS, fullActions - 1, timeAfter)

\* creature_Animate(creature, dt)
Animate(b, dt) ==
    IF b.energy > MAX_ENERGY
    THEN Animated(Update([b EXCEPT !.contracted = Relaxed], dt), << >>, FALSE)
    ELSE LET untilNext == ACTION_TIME - (b.clock % ACTION_TIME)
             short == dt < untilNext
             timeBefore == IF short THEN dt ELSE untilNext
             fullActions == IF short THEN 0 ELSE dt \div ACTION_TIME
             timeAfter == IF short THEN 0 ELSE (b.clock + dt) % ACTION_TIME
             animationIndex == (b.clock % BEHAVIOR_TIME) \div ACTION_TIME
             before == IF timeBefore # 0
                       THEN [Update(b, timeBefore) EXCEPT !.clock = @ + timeBefore]
                       ELSE b
         IN  AnimateLoop(Animated(before, << >>, FALSE), animationIndex,
                         fullActions, timeAfter)

\* the return value of creature_Rest: no horizontal velocity is left
Rested(b) == ~b.moving

\* the creature without the history field
Observable(b) == [b EXCEPT !.worked = FALSE]

\* what an observer of creature_Animate sees: clock, slots and flags
Seen(r) == <<r.body.clock, r.trace, r.body.contracted>>

\* creature_Animate with d and then with dt - d
AnimateSplit(b, d, dt) ==
    LET one == Animate(b, d)
        two == Animate(one.body, dt - d)
    IN  Animated(two.body, one.trace \o two.trace, one.late \/ two.late)

\* history: the first split of dt into two durations after which
\* creature_Animate leaves something else than in one call, or -1
SplitAt(b, dt) ==
    LET differ == {d \in 1..(dt - 1) : Seen(AnimateSplit(b, d, dt)) # Seen(Animate(b, dt))}
    IN  IF differ = {} THEN -1
        ELSE CHOOSE d \in differ : \A o \in differ : d <= o

MotionOp(name, dt, before, r, splitAt, halves, ret) ==
    [op |-> name, dt |-> dt, clock |-> before.clock, energy |-> before.energy,
     trace |-> r.trace,
     late |-> r.late, splitAt |-> splitAt, halves |-> halves, ret |-> ret]

\* the creature at rest, as creature_CreateRandom and creature_Reset leave it
NewBody ==
    /\ body \in {[clock |-> 0, energy |-> 0, contracted |-> Relaxed, action |-> a,
                  initial |-> h, y |-> h, vy |-> 0, moving |-> FALSE,
                  worked |-> FALSE]
                 : a \in [0..(MAX_ACTIONS - 1) -> Muscles \cup {MUSCLE_NONE}],
                   h \in 0..MaxHeight}
    /\ motionOp = MotionOp("Reset", 0, body, Animated(body, << >>, FALSE), -1, TRUE, TRUE)

\* the simulation goes on
Alive == body.clock <= MaxClock /\ body.energy <= MAX_ENERGY + MaxSpent

Start == [body EXCEPT !.worked = FALSE]

creature_Reset ==
    /\ body' = Reset(Start)
    /\ motionOp' = MotionOp("Reset", 0, body, Animated(body', << >>, FALSE), -1, TRUE, TRUE)
    /\ UNCHANGED outsideMotion

creature_Update ==
    /\ Alive
    /\ \E dt \in 0..MaxDt :
          /\ body' = Update(Start, dt)
          /\ motionOp' = MotionOp("Update", dt, body, Animated(body', << >>, FALSE), -1,
                            \/ dt % 2 # 0
                            \/ Observable(Update(Update(Start, dt \div 2), dt \div 2))
                                  = Observable(body'),
                            TRUE)
    /\ UNCHANGED outsideMotion

creature_Rest ==
    /\ Alive
    /\ \E dt \in 0..MaxDt :
          /\ body' = Update(Start, dt)
          /\ motionOp' = MotionOp("Rest", dt, body, Animated(body', << >>, FALSE), -1,
                                  TRUE, Rested(body'))
    /\ UNCHANGED outsideMotion

creature_Animate ==
    /\ Alive
    /\ \E dt \in 0..MaxDt :
          /\ body' = Animate(Start, dt).body
          /\ motionOp' = MotionOp("Animate", dt, body, Animate(Start, dt),
                                  SplitAt(Start, dt), TRUE, TRUE)
    /\ UNCHANGED outsideMotion

NextMotion ==
    \/ creature_Reset
    \/ creature_Update
    \/ creature_Rest
    \/ creature_Animate

(***************************************************************************)
(* creature_Fitness and WalkFitness on the simulated creature.  The one    *)
(* node of body stands for all nodes: initial = 0 is the creature whose    *)
(* nodes all start at one height.  Its relaxed muscles have their extended *)
(* length, which GenerateMuscle took from the initial positions, so        *)
(* nothing sets it in horizontal motion.  The nodes of any other creature  *)
(* land one after the other, which can stretch the muscles and set the     *)
(* nodes in motion.                                                        *)
(***************************************************************************)
FITNESS_TRIALS == 2

MaxRests == 3

Walk(at, trial, memo, rested, rests) ==
    [pc |-> at, trial |-> trial, memo |-> memo, rested |-> rested,
     rests |-> rests]

\* creature_Rest(creature, BEHAVIOR_TIME), line 1195: the creature after
\* the update
RestOutcomes(b) ==
    LET updated == Update(b, BEHAVIOR_TIME)
    IN  IF b.initial > 0
        THEN {updated, [updated EXCEPT !.moving = TRUE]}
        ELSE {updated}

\* a creature whose fitness was not evaluated yet
NewWalk == walk = Walk("idle", 0, FALSE, "none", 0)

\* creature_Fitness, lines 1287-1293: reset the creature, return the memo
\* if there is one
Fitness_Call ==
    /\ walk.pc = "idle"
    /\ body' = Reset(Start)
    /\ walk' = IF walk.memo THEN walk ELSE Walk("rest", 0, FALSE, "none", 0)
    /\ UNCHANGED outsideFitness

\* WalkFitness, line 1246: while (creature_Rest(creature, BEHAVIOR_TIME));
Fitness_Rest ==
    /\ walk.pc = "rest"
    /\ body' \in RestOutcomes(Start)
    /\ walk' = [walk EXCEPT !.rested = IF Rested(body') THEN "rest" ELSE "moving",
                            !.rests = (@ + 1) % (MaxRests + 1),
                            !.pc = IF Rested(body') THEN "rest" ELSE "trials"]
    /\ UNCHANGED outsideFitness

\* WalkFitness, lines 1262-1273: the loop over the trials leaves after
\* FITNESS_TRIALS of them, and creature_Fitness stores the result, which is
\* a memo unless it happens to be FITNESS_INVALID
Tried(w, valid) ==
    IF w.trial + 1 < FITNESS_TRIALS
    THEN [w EXCEPT !.trial = @ + 1]
    ELSE [w EXCEPT !.trial = @ + 1, !.pc = "idle", !.memo = valid]

\* WalkFitness, lines 1262-1273, and creature_Fitness, lines 1297-1299: one
\* trial; after the last the fitness is stored in the memo
Fitness_Trial ==
    /\ walk.pc = "trials"
    /\ body' = Animate(Start, BEHAVIOR_TIME).body
    /\ \E valid \in BOOLEAN : walk' = Tried(walk, valid)
    /\ UNCHANGED outsideFitness

NextFitness ==
    \/ Fitness_Call
    \/ Fitness_Rest
    \/ Fitness_Trial

\* the evaluation while another subsystem is exercised
NoWalk == walk = Walk("idle", 0, FALSE, "none", 0)

(***************************************************************************)
(* The target lengths of one muscle.  Lengths are in quarters of the unit  *)
(* of length, so that MIN_CONTRACTED_LENGTH (0.25) is 1 and                *)
(* MAX_MUSCLE_LENGTH (2.0) is 8.                                           *)
(***************************************************************************)
MIN_CONTRACTED_LENGTH == 1
MAX_MUSCLE_LENGTH == 8

\* the greatest distance of two nodes: initial positions are within
\* [-1, 1] x [0, 1] x [-1, 1]
MaxDistance == 12

\* uniform(lo, hi) of random.h: some value between the two
uniform(lo, hi) == IF lo <= hi THEN lo..hi ELSE hi..lo

Lengths(contracted, extended) == [contracted |-> contracted, extended |-> extended]

\* GenerateMuscle, lines 728-738, for nodes at the distance length:
\* extended = length, contracted = uniform(length/2.0, length)
GenerateLengths(length) ==
    {Lengths(contracted, length) : contracted \in {k \in 0..length : 2 * k >= length}}

\* creature_Mutate, case MUSCLE_EXTENDED
MutateExtended(m) ==
    {[m EXCEPT !.extended = e] : e \in uniform(m.contracted, MAX_MUSCLE_LENGTH)}

\* creature_Mutate, case MUSCLE_CONTRACTED
MutateContracted(m) ==
    {[m EXCEPT !.contracted = k] : k \in uniform(MIN_CONTRACTED_LENGTH, m.extended)}

\* a muscle as creature_CreateRandom generates it
NewMuscle ==
    /\ \E length \in 0..MaxDistance : lengths \in GenerateLengths(length)
    /\ lengthOp = "Generate"

\* GenerateMuscle called by creature_CreateRandom or for MUSCLE_ADD
Muscle_Generate ==
    /\ \E length \in 0..MaxDistance : lengths' \in GenerateLengths(length)
    /\ lengthOp' = "Generate"
    /\ UNCHANGED outsideMuscle

Muscle_Extended ==
    /\ lengths' \in MutateExtended(lengths)
    /\ lengthOp' = "Extended"
    /\ UNCHANGED outsideMuscle

Muscle_Contracted ==
    /\ lengths' \in MutateContracted(lengths)
    /\ lengthOp' = "Contracted"
    /\ UNCHANGED outsideMuscle

NextMuscle ==
    \/ Muscle_Generate
    \/ Muscle_Extended
    \/ Muscle_Contracted

\* the muscle while another subsystem is exercised
NoMuscle ==
    /\ lengths = Lengths(MIN_CONTRACTED_LENGTH, MAX_MUSCLE_LENGTH)
    /\ lengthOp = "Generate"

(***************************************************************************)
(* The behavior of a creature: the action slots and the counts they refer  *)
(* to, under creature_CreateRandom, creature_Mutate and creature_Breed.    *)
(***************************************************************************)
Program(nNodes, nMuscles, action) ==
    [nNodes |-> nNodes, nMuscles |-> nMuscles, action |-> action]

\* creature_CreateRandom, lines 749-750 and 766-774
CreatePrograms ==
    UNION {UNION {{Program(nNodes, nMuscles, action)
                   : action \in [0..(MAX_ACTIONS - 1) ->
                                    randint(0, nMuscles - 1) \cup {MUSCLE_NONE}]}
                  : nMuscles \in randint(nNodes, MAX_MUSCLES)}
           : nNodes \in randint(MIN_NODES, MAX_NODES)}

\* the switch of creature_Mutate on the counts and the behavior, for the
\* pre-generated slot index action
MutateProgram(p, mutation, action) ==
    CASE mutation = NODE_ADD ->
            {IF p.nNodes < MAX_NODES THEN [p EXCEPT !.nNodes = @ + 1] ELSE p}
      [] mutation = NODE_REMOVE ->
            {IF p.nNodes > MIN_NODES THEN [p EXCEPT !.nNodes = @ - 1] ELSE p}
      [] mutation = MUSCLE_ADD ->
            {IF p.nMuscles < MAX_MUSCLES THEN [p EXCEPT !.nMuscles = @ + 1] ELSE p}
      [] mutation = MUSCLE_REMOVE ->
            {IF p.nMuscles > p.nNodes THEN [p EXCEPT !.nMuscles = @ - 1] ELSE p}
      [] mutation = BEHAVIOR_ADD ->
            {[p EXCEPT !.action[action] = m] : m \in randint(0, p.nMuscles - 1)}
      [] mutation = BEHAVIOR_REMOVE ->
            {[p EXCEPT !.action[action] = MUSCLE_NONE]}
      [] OTHER -> {p}

\* creature_Mutate: every program one call can turn p into
MutatePrograms(p) ==
    UNION {UNION {MutateProgram(p, mutation, action)
                  : action \in randint(0, MAX_ACTIONS - 1)}
           : mutation \in randint(0, N_MUTATIONS - 1)}

\* the loop of creature_Breed, lines 1003-1005: nMutations calls of
\* creature_Mutate
RECURSIVE MutateTimes(_, _)
MutateTimes(S, nMutations) ==
    IF nMutations = 0 THEN S
    ELSE MutateTimes(UNION {MutatePrograms(p) : p \in S}, nMutations - 1)

\* creature_Breed, lines 944-950 and 993-999: the counts of one parent, the
\* actions before the crossover point from the mother, the others from the
\* father
Crossover(mother, father) ==
    UNION {{Program(from.nNodes, from.nMuscles,
                    [j \in 0..(MAX_ACTIONS - 1) |->
                        IF j < crossover THEN mother.action[j] ELSE father.action[j]])
            : crossover \in randint(0, MAX_ACTIONS - 1)}
           : from \in {mother, father}}

\* creature_Breed, lines 1002-1005: the children the mutation passes make
\* of the programs S the inheritance produced
BreedMutations(S) ==
    UNION {MutateTimes(S, nMutations) : nMutations \in randint(0, MAX_MUTATIONS)}

\* the programs creature_CreateRandom and creature_Mutate produce, as the
\* other parent of a creature_Breed
RECURSIVE ProgramClosure(_)
ProgramClosure(S) ==
    LET T == S \cup UNION {MutatePrograms(p) : p \in S}
    IN  IF T = S THEN S ELSE ProgramClosure(T)

Mates == ProgramClosure(CreatePrograms)

ProgramOp(name, kind) == [op |-> name, kind |-> kind]

\* the program of a creature after creature_CreateRandom
NewProgram ==
    /\ program \in CreatePrograms
    /\ programOp = ProgramOp("CreateRandom", -1)

Behavior_CreateRandom ==
    /\ program' \in CreatePrograms
    /\ programOp' = ProgramOp("CreateRandom", -1)
    /\ UNCHANGED outsideBehavior

Behavior_Mutate ==
    /\ \E mutation \in randint(0, N_MUTATIONS - 1), action \in randint(0, MAX_ACTIONS - 1) :
          /\ program' \in MutateProgram(program, mutation, action)
          /\ programOp' = ProgramOp("Mutate", mutation)
    /\ UNCHANGED outsideBehavior

\* the children of p with any mate, p as the mother or as the father
Children(p) ==
    BreedMutations(UNION {Crossover(p, mate) \cup Crossover(mate, p) : mate \in Mates})

Behavior_Breed ==
    /\ program' \in Children(program)
    /\ programOp' = ProgramOp("Breed", -1)
    /\ UNCHANGED outsideBehavior

NextBehavior ==
    \/ Behavior_CreateRandom
    \/ Behavior_Mutate
    \/ Behavior_Breed

\* the program while another subsystem is exercised
NoBehavior ==
    /\ program = Program(MIN_NODES, MIN_NODES, [j \in 0..(MAX_ACTIONS - 1) |-> MUSCLE_NONE])
    /\ programOp = ProgramOp("CreateRandom", -1)

(***************************************************************************)
(* The genetic engine, src/src/genetic.c.  An entity is entitySize bytes;  *)
(* a buffer is a function from byte offsets to byte values.                *)
(***************************************************************************)
MaxPopulation == 5
MaxEntitySize == 2
MaxByte == 1
MaxTimeout == 2
MaxTarget == 0
MaxGenerations == 3
\* the most bytes in the entities buffer
MaxMemory == 8

\* the values of a byte and the sizes of an entity
Bytes == 0..MaxByte
EntitySizes == 1..MaxEntitySize

TIMEOUT_NONE == 0
NULL == -1
INFINITY == MaxEntitySize * MaxByte + MaxTarget + 1

\* the contents an entity of the given size can have
Contents(size) == [0..(size - 1) -> Bytes]

\* genetic_Entity(data, index): the offset of the entity in data->entities
genetic_Entity(index, size) == index

\* genetic_Newborn(data, index): the offset of the newborn in data->newborn
genetic_Newborn(index, size) == index

\* the size bytes of buffer at offset
Read(buffer, offset, size) == [k \in 0..(size - 1) |-> buffer[offset + k]]

\* memcpy(buffer + offset, content, size), also a callback's write of an entity
Write(buffer, offset, content, size) ==
    [a \in DOMAIN buffer |->
        IF offset <= a /\ a < offset + size THEN content[a - offset] ELSE buffer[a]]

\* the slots of the first count, other than those written, whose content a
\* write changed (genetic_Entity and genetic_Newborn address alike)
Others(before, after, written, count) ==
    {j \in (0..(count - 1)) \ written :
        Read(after, genetic_Entity(j, entitySize), entitySize)
            # Read(before, genetic_Entity(j, entitySize), entitySize)}

\* the elements of a sequence
Range(seq) == {seq[k] : k \in 1..Len(seq)}

\* the fitness callback: a deterministic function of the entity's content
RECURSIVE SumBytes(_, _)
SumBytes(content, size) ==
    IF size = 0 THEN 0 ELSE content[size - 1] + SumBytes(content, size - 1)

FitnessCallback(content, size) == SumBytes(content, size)

\* the random callback on the slots i..populationSize-1 in turn
RECURSIVE RandomizeFrom(_, _, _, _)
RandomizeFrom(buffer, i, count, size) ==
    IF i >= count THEN {buffer}
    ELSE UNION {RandomizeFrom(Write(buffer, genetic_Entity(i, size), content, size),
                              i + 1, count, size)
                : content \in Contents(size)}

\* heap.h: the ranking heap holds (payload, priority) elements
Element(payload, priority) == [payload |-> payload, priority |-> priority]

heap_Push(h, payload, priority) == h \cup {Element(payload, priority)}

\* the elements of least priority
Least(h) == {e \in h : \A o \in h : e.priority <= o.priority}

\* heap_Top: the root, an element of least priority
heap_Top(h) == Least(h)

\* heap_Pop: the elements heap_Pop can remove.  The root heap_Top returned
\* is still the root when nothing was popped since.
heap_Pop(h, full, top) ==
    IF Cardinality(h) = full THEN {e \in Least(h) : e.payload = top}
    ELSE Least(h)

\* fault injection for C19: the breeding loop runs for twice the offspring
DoubleBreed(population) == 4 * (population \div 4)

\* fault injection for C4: a breeding count that is not doubled
HalfBreed(population) == population \div 4

\* int nBreed = 2*(data->populationSize/4)
NBreed(population) == 2 * (population \div 4)

Buffers(e, h, b) == [entities |-> e, heap |-> h, newborn |-> b]

\* the locals of genetic_Solve, its result, and as history the generations
\* that ran in the call and whether one that met the target was followed by
\* another
NoSolve == [fitness |-> 0, timeout |-> 0, generation |-> 0, result |-> 0,
            returned |-> FALSE, ran |-> 0, missed |-> FALSE]

NotScored == [least |-> INFINITY, slots |-> {}]

\* the request: before genetic_Create nothing is allocated
Request ==
    /\ pc = "start"
    /\ caller = "none"
    /\ populationSize \in 1..MaxPopulation
    /\ entitySize \in EntitySizes
    /\ populationSize * entitySize <= MaxMemory
    /\ entities = << >>
    /\ newborn = << >>
    /\ heap = {}
    /\ best = NULL
    /\ bestFitness = INFINITY
    /\ n = 0
    /\ buffers = Buffers("none", "none", "none")
    /\ solve = NoSolve
    /\ seeded = 0
    /\ scored = NotScored
    /\ parents = << >>
    /\ killed = << >>
    /\ randomized = << >>
    /\ prevBest = INFINITY
    /\ born = << >>
    /\ replaced = << >>
    /\ clobbered = FALSE
    /\ spilled = FALSE

\* fault injection for C8: the entities buffer is not freed when heap_Create
\* fails
LeakBuffers(failing) ==
    CASE failing = 1 -> Buffers("none", "none", "none")
      [] failing = 2 -> Buffers("live", "none", "none")
      [] failing = 3 -> Buffers("freed", "freed", "none")
      [] OTHER       -> Buffers("live", "live", "live")

\* genetic_Create when the allocation failing is the given one (0: none
\* fails): the state of the buffers when it returns
CreateBuffers(failing) ==
    CASE failing = 1 -> Buffers("none", "none", "none")
      [] failing = 2 -> Buffers("freed", "none", "none")
      [] failing = 3 -> Buffers("freed", "freed", "none")
      [] OTHER       -> Buffers("live", "live", "live")

genetic_Create ==
    /\ pc = "start"
    /\ \E failing \in 0..3 :
          /\ buffers' = CreateBuffers(failing)
          /\ IF failing # 0
             THEN /\ pc' = "failed"
                  /\ UNCHANGED <<entities, newborn, seeded, best, bestFitness>>
             ELSE /\ pc' = "idle"
                  /\ entities' \in RandomizeFrom(
                         [a \in 0..(entitySize * populationSize - 1) |-> 0],
                         0, populationSize, entitySize)
                  /\ newborn' = [a \in 0..(entitySize * (populationSize \div 2 + 1) - 1) |-> 0]
                  /\ seeded' = populationSize
                  /\ best' = NULL
                  /\ bestFitness' = INFINITY
    /\ UNCHANGED <<caller, populationSize, entitySize, heap, n, solve, scored,
                   parents, killed, randomized, prevBest, born, replaced, clobbered, spilled>>
    /\ UNCHANGED outsideGenetic

\* genetic_Generation, lines 107-114: push every slot, set the best
RECURSIVE PushAll(_, _)
PushAll(h, i) ==
    IF i >= populationSize THEN h
    ELSE PushAll(heap_Push(h, i, FitnessCallback(Read(entities, genetic_Entity(i, entitySize),
                                              entitySize), entitySize)), i + 1)

\* history: the least of the fitness values of the slots and where it is
Scores ==
    LET score == [i \in 0..(populationSize - 1) |->
                    FitnessCallback(Read(entities, genetic_Entity(i, entitySize),
                                         entitySize), entitySize)]
        least == CHOOSE v \in {score[i] : i \in DOMAIN score} :
                    \A i \in DOMAIN score : v <= score[i]
    IN  [least |-> least, slots |-> {i \in DOMAIN score : score[i] = least}]

\* fault injection for C5: the fitness of the best individual is not recorded
KeepBest(top) ==
    [best |-> genetic_Entity(top.payload, entitySize), bestFitness |-> bestFitness]

\* genetic_Generation, lines 112-114: set the best individual from the root
SetBest(top) ==
    [best |-> genetic_Entity(top.payload, entitySize), bestFitness |-> top.priority]

\* genetic_Generation up to line 114, called by who
Rank(who) ==
    /\ caller' = who
    /\ heap' = PushAll(heap, 0)
    /\ scored' = Scores
    /\ prevBest' = bestFitness
    /\ \E top \in heap_Top(heap') :
          /\ best' = SetBest(top).best
          /\ bestFitness' = SetBest(top).bestFitness
    /\ n' = 0
    /\ parents' = << >>
    /\ killed' = << >>
    /\ randomized' = << >>
    /\ born' = << >>
    /\ replaced' = << >>
    /\ clobbered' = FALSE
    /\ spilled' = FALSE
    /\ pc' = IF NBreed(populationSize) > 0 THEN "breed" ELSE "random"
    /\ UNCHANGED <<populationSize, entitySize, entities, newborn, buffers, seeded>>
    /\ UNCHANGED outsideGenetic

\* genetic_Generation called by the driver
genetic_Generation ==
    /\ pc = "idle"
    /\ Rank("main")
    /\ solve' = NoSolve

\* genetic_Generation, lines 122-132: one pair of parents breeds
Generation_Breed ==
    /\ pc = "breed"
    /\ \E mother \in heap_Pop(heap, populationSize, best) :
       \E father \in heap_Pop(heap \ {mother}, populationSize, best) :
       \E son \in Contents(entitySize), daughter \in Contents(entitySize) :
          /\ heap' = (heap \ {mother}) \ {father}
          /\ newborn' = Write(Write(newborn, genetic_Newborn(n, entitySize), son, entitySize),
                              genetic_Newborn(n + 1, entitySize), daughter, entitySize)
          /\ parents' = parents \o <<mother.payload, father.payload>>
          /\ born' = born \o <<n, n + 1>>
          /\ spilled' = (spilled \/ Others(newborn, newborn', {n, n + 1}, n + 2) # {}
                                 \/ Read(newborn', genetic_Newborn(n, entitySize),
                                         entitySize) # son)
          /\ n' = IF n + 2 < NBreed(populationSize) THEN n + 2 ELSE 0
          /\ pc' = IF n + 2 < NBreed(populationSize) THEN "breed" ELSE "kill"
    /\ UNCHANGED <<caller, populationSize, entitySize, entities, best, bestFitness,
                   buffers, solve, seeded, scored, killed, randomized, prevBest,
                   replaced, clobbered>>
    /\ UNCHANGED outsideGenetic

\* fault injection for C28: the loop of the stragglers is skipped
LeaveEarly(h) ==
    IF caller = "solve" THEN "solve_after" ELSE "idle"

\* where genetic_Generation goes on when it leaves a loop with heap h
Leave(h) ==
    IF h # {} THEN "random"
    ELSE IF caller = "solve" THEN "solve_after" ELSE "idle"

\* genetic_Generation, lines 135-139: a newborn replaces the popped slot
Generation_Kill ==
    /\ pc = "kill"
    /\ \E e \in heap_Pop(heap, populationSize, best) :
          /\ heap' = heap \ {e}
          /\ entities' = Write(entities, genetic_Entity(e.payload, entitySize),
                               Read(newborn, genetic_Newborn(n, entitySize), entitySize),
                               entitySize)
          /\ killed' = Append(killed, e.payload)
          /\ clobbered' = (clobbered \/ Others(entities, entities', {e.payload},
                                                populationSize) \cap Range(parents) # {})
          /\ spilled' = (spilled \/ Others(entities, entities', {e.payload},
                                            populationSize) # {})
          /\ replaced' = IF n + 1 < NBreed(populationSize)
                          THEN Append(replaced, e.priority) ELSE << >>
          /\ n' = n + 1
          /\ pc' = IF n + 1 < NBreed(populationSize) THEN "kill" ELSE Leave(heap')
    /\ UNCHANGED <<caller, populationSize, entitySize, newborn, best, bestFitness,
                   buffers, solve, seeded, scored, parents, randomized, prevBest,
                   born>>
    /\ UNCHANGED outsideGenetic

\* genetic_Generation, lines 143-147: a straggler is randomized
Generation_Random ==
    /\ pc = "random"
    /\ \E e \in heap_Pop(heap, populationSize, best) :
       \E content \in Contents(entitySize) :
          /\ heap' = heap \ {e}
          /\ entities' = Write(entities, genetic_Entity(e.payload, entitySize),
                               content, entitySize)
          /\ randomized' = Append(randomized, e.payload)
          /\ clobbered' = (clobbered \/ Others(entities, entities', {e.payload},
                                                populationSize) \cap Range(parents) # {})
          /\ spilled' = (spilled \/ Others(entities, entities', {e.payload},
                                            populationSize) # {})
          /\ pc' = Leave(heap')
    /\ UNCHANGED <<caller, populationSize, entitySize, newborn, best, bestFitness, n,
                   buffers, solve, seeded, scored, parents, killed, prevBest,
                   born, replaced>>
    /\ UNCHANGED outsideGenetic

\* genetic_Solve is called: int generation = 0
genetic_Solve ==
    /\ pc = "idle"
    /\ \E target \in 0..MaxTarget, timeout \in 0..MaxTimeout :
          solve' = [fitness |-> target, timeout |-> timeout, generation |-> 0,
                    result |-> 0, returned |-> FALSE, ran |-> 0, missed |-> FALSE]
    /\ pc' = "solve_loop"
    /\ UNCHANGED <<caller, populationSize, entitySize, entities, newborn, heap, best,
                   bestFitness, n, buffers, seeded, scored, parents, killed,
                   randomized, prevBest, born, replaced, clobbered, spilled>>
    /\ UNCHANGED outsideGenetic

\* fault injection for C7: a loop test that admits one generation too many
SolveOffByOne(generation, timeout) ==
    generation <= timeout \/ timeout = TIMEOUT_NONE

\* the condition of the while loop of genetic_Solve
SolveContinues(generation, timeout) ==
    generation < timeout \/ timeout = TIMEOUT_NONE

\* genetic_Solve, lines 155-156 and 162: the loop test
Solve_Loop ==
    /\ pc = "solve_loop"
    /\ IF SolveContinues(solve.generation, solve.timeout)
       THEN /\ solve.generation < MaxGenerations
            /\ Rank("solve")
            /\ solve' = [solve EXCEPT
                           !.ran = @ + 1,
                           !.missed = @ \/ (solve.ran > 0 /\ bestFitness <= solve.fitness)]
       ELSE /\ solve' = [solve EXCEPT !.result = solve.timeout, !.returned = TRUE]
            /\ pc' = "idle"
            /\ UNCHANGED <<caller, populationSize, entitySize, entities, newborn, heap,
                           best, bestFitness, n, buffers, seeded, scored, parents,
                           killed, randomized, prevBest, born, replaced, clobbered, spilled>>
            /\ UNCHANGED outsideGenetic

\* genetic_Solve, lines 157-160: count the generation, test the fitness
Solve_After ==
    /\ pc = "solve_after"
    /\ IF bestFitness <= solve.fitness
       THEN /\ solve' = [solve EXCEPT !.generation = @ + 1,
                                      !.result = solve.generation + 1,
                                      !.returned = TRUE]
            /\ pc' = "idle"
       ELSE /\ solve' = [solve EXCEPT !.generation = @ + 1]
            /\ pc' = "solve_loop"
    /\ UNCHANGED <<caller, populationSize, entitySize, entities, newborn, heap, best,
                   bestFitness, n, buffers, seeded, scored, parents, killed,
                   randomized, prevBest, born, replaced, clobbered, spilled>>
    /\ UNCHANGED outsideGenetic

NextGenetic ==
    \/ genetic_Create
    \/ genetic_Generation
    \/ Generation_Breed
    \/ Generation_Kill
    \/ Generation_Random
    \/ genetic_Solve
    \/ Solve_Loop
    \/ Solve_After

\* the populations of the selection runs: one with a straggler, one with
\* two pairs of parents
SelectPopulations == {5, 8}

\* how many individuals of a population of the selection runs score the
\* least: one less than, as many as, and one more than there are parents
SelectLow(population) ==
    {NBreed(population) - 1, NBreed(population), NBreed(population) + 1}

\* genetic_Create succeeded for entities of one byte, the random callback
\* gave the first slots the least byte and the others the greatest, and
\* genetic_Solve was called with a timeout of one generation
Selection ==
    /\ pc = "solve_loop"
    /\ caller = "none"
    /\ populationSize \in SelectPopulations
    /\ entitySize = 1
    /\ \E low \in SelectLow(populationSize) :
          entities = [a \in 0..(populationSize - 1) |-> IF a < low THEN 0 ELSE MaxByte]
    /\ newborn = [a \in 0..(populationSize \div 2) |-> 0]
    /\ heap = {}
    /\ best = NULL
    /\ bestFitness = INFINITY
    /\ n = 0
    /\ buffers = Buffers("live", "live", "live")
    /\ solve = [NoSolve EXCEPT !.timeout = 1]
    /\ seeded = populationSize
    /\ scored = NotScored
    /\ parents = << >>
    /\ killed = << >>
    /\ randomized = << >>
    /\ prevBest = INFINITY
    /\ born = << >>
    /\ replaced = << >>
    /\ clobbered = FALSE
    /\ spilled = FALSE

\* one call of genetic_Solve that runs one generation
NextSelect ==
    \/ Solve_Loop
    \/ Generation_Breed
    \/ Generation_Kill
    \/ Generation_Random
    \/ Solve_After

(***************************************************************************)
(* Specifications                                                          *)
(***************************************************************************)
\* the genetic engine while only the creature is exercised
NoGenetic ==
    /\ pc = "start"
    /\ caller = "none"
    /\ populationSize = 1
    /\ entitySize = 1
    /\ entities = << >>
    /\ newborn = << >>
    /\ heap = {}
    /\ best = NULL
    /\ bestFitness = INFINITY
    /\ n = 0
    /\ buffers = Buffers("none", "none", "none")
    /\ solve = NoSolve
    /\ seeded = 0
    /\ scored = NotScored
    /\ parents = << >>
    /\ killed = << >>
    /\ randomized = << >>
    /\ prevBest = INFINITY
    /\ born = << >>
    /\ replaced = << >>
    /\ clobbered = FALSE
    /\ spilled = FALSE

\* the creature while only the genetic engine is exercised
NoCreature ==
    /\ creature = [nNodes |-> MIN_NODES, nMuscles |-> MIN_NODES,
                   muscles |-> [i \in 0..(MIN_NODES - 1) |-> Muscle(i, (i + 1) % MIN_NODES)],
                   fitness |-> FITNESS_INVALID]
    /\ pending = 0
    /\ evaluated = NotEvaluated
    /\ lastOp = Op("CreateRandom", -1, FITNESS_INVALID, FALSE, FALSE)
    /\ vitals = Vitals(0, 0)

\* the simulation while another subsystem is exercised
NoMotion ==
    /\ body = [clock |-> 0, energy |-> 0, contracted |-> Relaxed,
               action |-> [i \in 0..(MAX_ACTIONS - 1) |-> MUSCLE_NONE],
               initial |-> 0, y |-> 0, vy |-> 0, moving |-> FALSE, worked |-> FALSE]
    /\ motionOp = MotionOp("Reset", 0, body, Animated(body, << >>, FALSE), -1, TRUE, TRUE)

InitCreature ==
    /\ NewCreature
    /\ NoGenetic
    /\ NoMotion
    /\ NoMuscle
    /\ NoBehavior
    /\ NoWalk

InitGenetic ==
    /\ Request
    /\ NoCreature
    /\ NoMotion
    /\ NoMuscle
    /\ NoBehavior
    /\ NoWalk

InitMotion ==
    /\ NewBody
    /\ NoCreature
    /\ NoGenetic
    /\ NoMuscle
    /\ NoBehavior
    /\ NoWalk

\* the selection run: only the genetic engine is exercised
InitSelect ==
    /\ Selection
    /\ NoCreature
    /\ NoMotion
    /\ NoMuscle
    /\ NoBehavior
    /\ NoWalk

InitBehavior ==
    /\ NewProgram
    /\ NoCreature
    /\ NoGenetic
    /\ NoMotion
    /\ NoMuscle
    /\ NoWalk

InitFitness ==
    /\ NewBody
    /\ NewWalk
    /\ NoCreature
    /\ NoGenetic
    /\ NoMuscle
    /\ NoBehavior

InitMuscle ==
    /\ NewMuscle
    /\ NoCreature
    /\ NoGenetic
    /\ NoMotion
    /\ NoBehavior
    /\ NoWalk

SpecCreature == InitCreature /\ [][NextCreature]_vars

SpecGenetic == InitGenetic /\ [][NextGenetic]_vars

SpecMotion == InitMotion /\ [][NextMotion]_vars

SpecMuscle == InitMuscle /\ [][NextMuscle]_vars

SpecBehavior == InitBehavior /\ [][NextBehavior]_vars

SpecFitness == InitFitness /\ [][NextFitness]_vars

\* WalkFitness runs on: a loop that can go on does go on (for the trials
\* this is stated on walk, which every trial changes), and a creature that
\* a landing can set in motion is set in motion at some landing
SpecFitnessFair ==
    /\ SpecFitness
    /\ WF_<<body, walk>>(Fitness_Call)
    /\ WF_<<body, walk>>(Fitness_Rest)
    /\ WF_walk(walk.pc = "trials" /\ \E valid \in BOOLEAN : walk' = Tried(walk, valid))
    /\ SF_<<body, walk>>(Fitness_Rest /\ ~Rested(body'))
\* one generation of a larger population
SpecSelect == InitSelect /\ [][NextSelect]_vars

\* every parent creature_Breed can meet is one of Parents
ParentsComplete == Genome(creature) \in Parents

(***************************************************************************)
(* Claims about the creature (SpecCreature)                                *)
(***************************************************************************)
\* node v of c is an endpoint of one of its muscles
Touched(c, v) ==
    \E i \in DOMAIN c.muscles : c.muscles[i].first = v \/ c.muscles[i].second = v

\* C1: after any sequence of creature_CreateRandom, creature_Mutate and
\* creature_Breed every node index 0..nNodes-1 of the creature is the first
\* or second endpoint of at least one muscle with index < nMuscles.
C1_Spanning ==
    pending = 0 => \A v \in 0..(creature.nNodes - 1) : Touched(creature, v)

\* C2: after any sequence of creature_CreateRandom, creature_Mutate and
\* creature_Breed the counts satisfy MIN_NODES <= nNodes <= MAX_NODES and
\* nNodes <= nMuscles <= MAX_MUSCLES.
C2_Counts ==
    pending = 0 =>
        /\ MIN_NODES <= creature.nNodes /\ creature.nNodes <= MAX_NODES
        /\ creature.nNodes <= creature.nMuscles /\ creature.nMuscles <= MAX_MUSCLES

\* C3: after any sequence of creature_CreateRandom, creature_Mutate and
\* creature_Breed every muscle with index < nMuscles has first # second and
\* both endpoints in 0..nNodes-1: no self-muscle and no dangling endpoint
\* survives the removal of a node or the inheritance from a parent with more
\* nodes.
C3_ValidMuscles ==
    /\ DOMAIN creature.muscles = 0..(creature.nMuscles - 1)
    /\ \A i \in DOMAIN creature.muscles :
          LET m == creature.muscles[i] IN
          /\ m.first # m.second
          /\ 0 <= m.first /\ m.first < creature.nNodes
          /\ 0 <= m.second /\ m.second < creature.nNodes

\* C3 happens: a node was removed, or a child inherited from a parent with
\* more nodes, and a muscle pointed at a node that no longer exists
C3_Repaired ==
    /\ lastOp.dangling
    /\ lastOp.op \in {"Mutate", "Breed"}
    /\ pending = 0

\* C9: calling creature_Fitness twice with no mutate or breed in between
\* returns the same value the second time without running WalkFitness
\* again, also when the computed fitness equals FITNESS_INVALID.
C9_Memoized ==
    (lastOp.op = "Fitness" /\ lastOp.again) =>
        /\ ~lastOp.ran
        /\ lastOp.ret = lastOp.prev

\* C10: whenever a creature with a memoized fitness is changed by
\* creature_Mutate or is the output of creature_Breed, its fitness memo is
\* FITNESS_INVALID afterwards.
C10_MemoReset ==
    /\ (lastOp.op = "Mutate" /\ lastOp.changed /\ lastOp.memo # FITNESS_INVALID)
            => creature.fitness = FITNESS_INVALID
    /\ lastOp.op = "Breed" => creature.fitness = FITNESS_INVALID

(***************************************************************************)
(* Claims about the genetic engine (SpecGenetic)                           *)
(***************************************************************************)
\* a generation has run and genetic_Generation has returned
Returned == scored.slots # {} /\ pc \notin {"breed", "kill", "random"}

\* the slots the last generation popped, in order
Handled == parents \o killed \o randomized

\* C4: for every population size P >= 1 and n = 2*floor(P/4) one call of
\* genetic_Generation handles each slot index 0..P-1 exactly once: exactly n
\* slots are overwritten by the n offspring, offspring k going to one slot,
\* exactly P - 2n leftover slots are overwritten by random individuals, and
\* the population is still P slots.  (Where entities are one byte the slot
\* of offspring k also holds the content of newborn k when the call returns.)
C4_EachSlotOnce ==
    Returned =>
        /\ Len(killed) = 2 * (populationSize \div 4)
        /\ Len(randomized) = populationSize - 2 * (2 * (populationSize \div 4))
        /\ Len(Handled) = populationSize
        /\ \A i \in 0..(populationSize - 1) :
              Cardinality({k \in 1..Len(Handled) : Handled[k] = i}) = 1
        /\ DOMAIN entities = 0..(entitySize * populationSize - 1)
        /\ entitySize = 1 =>
              \A k \in 1..Len(killed) :
                  entities[genetic_Entity(killed[k], entitySize)]
                      = newborn[genetic_Newborn(k - 1, entitySize)]

\* C4 happens: a generation that bred, placed offspring and randomized a
\* straggler has returned
C4_BredAndRandomized ==
    /\ Returned
    /\ Len(killed) = 2
    /\ Len(randomized) = 1

\* C5: after genetic_Generation returns, bestFitness is the least of the
\* fitness values of the P slots as scored in that generation and best
\* references a slot that scored it; before the first generation best is
\* NULL and bestFitness is INFINITY.
C5_Best ==
    /\ Returned =>
          /\ bestFitness = scored.least
          /\ best \in {genetic_Entity(i, entitySize) : i \in scored.slots}
    /\ (pc \in {"idle", "solve_loop"} /\ scored.slots = {}) =>
          /\ best = NULL
          /\ bestFitness = INFINITY

\* C5 happens: a generation returned whose least fitness was scored by one
\* slot only, and not by slot 0
C5_BestElsewhere ==
    /\ Returned
    /\ Cardinality(scored.slots) = 1
    /\ 0 \notin scored.slots
    /\ populationSize > 1

\* C6: for every population size P >= 1 and a fitness callback that is a
\* function of the entity's content, the bestFitness reported after
\* generation k+1 is <= the bestFitness reported after generation k.
C6_Monotone ==
    Returned => bestFitness <= prevBest

\* C7: genetic_Solve(target, timeout) with timeout > 0 returns g,
\* 1 <= g <= timeout, at the first generation g whose bestFitness <= target,
\* and returns timeout after exactly timeout generations when none of them
\* meets the target; with timeout = TIMEOUT_NONE it returns only when the
\* target is met.
C7_Solve ==
    solve.returned =>
        /\ ~solve.missed
        /\ IF bestFitness <= solve.fitness
           THEN /\ solve.result = solve.ran
                /\ 1 <= solve.ran
                /\ solve.timeout # TIMEOUT_NONE => solve.ran <= solve.timeout
           ELSE /\ solve.timeout # TIMEOUT_NONE
                /\ solve.result = solve.timeout
                /\ solve.ran = solve.timeout

\* C7 happens: without a timeout the target was met at the second generation
C7_MetAtSecond ==
    /\ solve.returned
    /\ solve.timeout = TIMEOUT_NONE
    /\ solve.result = 2

\* C8: if one of the three allocations of genetic_Create fails,
\* genetic_Create returns false, every buffer acquired earlier in the call
\* has been released and the random callback was not invoked on any slot.
C8_CreateFails ==
    /\ pc = "failed" =>
          /\ \A b \in DOMAIN buffers : buffers[b] # "live"
          /\ seeded = 0
    /\ (pc # "start" /\ \E b \in DOMAIN buffers : buffers[b] # "live") =>
          pc = "failed"

\* C8 happens: the allocation of newborn failed after entities and the heap
\* were acquired
C8_NewbornFailed ==
    /\ pc = "failed"
    /\ buffers.entities = "freed"
    /\ buffers.heap = "freed"

(***************************************************************************)
(* Claims about the simulation (SpecMotion)                                *)
(***************************************************************************)
\* C11: the energy of a creature never decreases over creature_Update,
\* creature_Rest and creature_Animate; a call increases it only if a muscle
\* was contracted during one of its steps; creature_Reset sets it to 0.
C11_Energy ==
    /\ motionOp.op \in {"Update", "Rest", "Animate"} =>
          /\ body.energy >= motionOp.energy
          /\ body.energy > motionOp.energy => body.worked
    /\ motionOp.op = "Reset" => body.energy = 0

\* C11 happens: a creature_Animate during which the energy grew
C11_Spent == motionOp.op = "Animate" /\ body.energy > motionOp.energy

\* C12: once the energy exceeded MAX_ENERGY no step of creature_Animate
\* toggles a muscle, the remaining action slots of the call that crossed the
\* ceiling included, and creature_Animate leaves every muscle non-contracted.
C12_EnergyDeath ==
    motionOp.op = "Animate" =>
       /\ ~motionOp.late
       /\ body.energy > MAX_ENERGY => body.contracted = Relaxed

\* C13: splitting the duration of a creature_Animate in two and animating
\* each part gives the same final clock, the same sequence of action slots
\* and the same isContracted flags as the single call.
C13_SplitInvariant == motionOp.op = "Animate" => motionOp.splitAt = -1

\* C14: creature_Update(D) leaves the creature in the same state as two
\* calls of creature_Update(D/2), also when D or D/2 is a multiple of
\* TIME_STEP and the remainder step has length zero.
C14_Halves == motionOp.op = "Update" => motionOp.halves

(***************************************************************************)
(* Claims about breeding and generation (SpecCreature)                     *)
(***************************************************************************)
\* C15 as stated: when creature_Breed returns the child has the node count
\* and the muscle count of the mother or those of the father.
C15_Counts ==
    (lastOp.op = "Breed" /\ pending = 0) => Counts(creature) \in lastOp.from

\* C15 amended: the child has the node count and the muscle count of the
\* mother or those of the father until the first mutation pass of
\* creature_Breed runs.
C15_CountsInherited ==
    (lastOp.op = "Breed" /\ ~lastOp.mutated) => Counts(creature) \in lastOp.from

\* C15 happens: creature_Breed of parents with different counts returned
\* without a mutation pass
C15_Unmutated ==
    /\ lastOp.op = "Breed"
    /\ pending = 0
    /\ ~lastOp.mutated
    /\ Cardinality(lastOp.from) = 2

\* C16: when creature_Breed returns the child has clock 0, energy 0 and the
\* fitness FITNESS_INVALID, whatever the child buffer held.
C16_ChildVitals ==
    (lastOp.op = "Breed" /\ pending = 0) =>
       /\ vitals = Vitals(0, 0)
       /\ creature.fitness = FITNESS_INVALID

\* the nodes joined to a node of S by the first count muscles of c
Joined(c, S, count) ==
    S \cup {c.muscles[i].first : i \in {j \in 0..(count - 1) : c.muscles[j].second \in S}}
      \cup {c.muscles[i].second : i \in {j \in 0..(count - 1) : c.muscles[j].first \in S}}

RECURSIVE Reach(_, _, _)
Reach(c, S, count) ==
    IF Joined(c, S, count) = S THEN S ELSE Reach(c, Joined(c, S, count), count)

\* C17: after creature_CreateRandom muscle i, for 0 < i < nNodes, joins node
\* i to a node of smaller index and muscle 0 joins node 0 to another node, so
\* that the first nNodes muscles connect all the nodes.
C17_SpanningTree ==
    lastOp.op = "CreateRandom" =>
       /\ \A i \in 1..(creature.nNodes - 1) :
             /\ creature.muscles[i].first = i
             /\ creature.muscles[i].second < i
       /\ creature.muscles[0].first = 0
       /\ creature.muscles[0].second \in 1..(creature.nNodes - 1)
       /\ Reach(creature, {0}, creature.nNodes) = 0..(creature.nNodes - 1)

\* C17 happens: creature_CreateRandom made a creature of MAX_NODES nodes
C17_Created ==
    /\ lastOp.op = "CreateRandom"
    /\ lastOp.changed
    /\ creature.nNodes = MAX_NODES

(***************************************************************************)
(* Claims about the target lengths of a muscle (SpecMuscle)                *)
(***************************************************************************)
\* C18: every muscle has contracted <= extended and both lengths within
\* [MIN_CONTRACTED_LENGTH, MAX_MUSCLE_LENGTH], also when it was generated
\* between nodes closer than the one or farther apart than the other.
C18_Lengths ==
    /\ lengths.contracted <= lengths.extended
    /\ MIN_CONTRACTED_LENGTH <= lengths.contracted
    /\ lengths.extended <= MAX_MUSCLE_LENGTH

(***************************************************************************)
(* Claims about selection (SpecSelect)                                     *)
(***************************************************************************)
\* the fitness of a slot of the population
Score(slot) ==
    FitnessCallback(Read(entities, genetic_Entity(slot, entitySize), entitySize),
                    entitySize)

\* C19: in a generation the parents are the 2*floor(P/4) individuals of the
\* lowest scores, popped in ascending order of score and paired as popped,
\* the pair k writing the offspring 2k and 2k+1; no other individual breeds.
\* (Stated while no slot is overwritten yet, so that the scores are those
\* of the generation.)
C19_Parents ==
    /\ Len(parents) <= 2 * (populationSize \div 4)
    /\ (scored.slots # {} /\ killed = << >> /\ randomized = << >>) =>
          /\ pc = "kill" => Len(parents) = 2 * (populationSize \div 4)
          /\ \A k \in 1..(Len(parents) - 1) :
                Score(parents[k]) <= Score(parents[k + 1])
          /\ \A k \in 1..Len(parents) : \A e \in heap :
                Score(parents[k]) <= e.priority
          /\ Len(born) = Len(parents)
          /\ \A k \in 1..Len(born) : born[k] = k - 1

\* C19 happens: two pairs have bred, the second of a higher score than the
\* first, and other individuals are left
C19_TwoPairs ==
    /\ pc = "kill"
    /\ killed = << >>
    /\ Len(parents) = 4
    /\ born = <<0, 1, 2, 3>>
    /\ Score(parents[2]) < Score(parents[4])
    /\ heap # {}

\* C20: offspring are written over slots that did not breed, in pop order,
\* and the first slot an offspring replaces is the one of the worst
\* (highest) score of the population.
C20_WorstFirst ==
    /\ \A k \in 1..Len(killed) : \A j \in 1..Len(parents) : killed[k] # parents[j]
    /\ Len(replaced) >= 1 => \A e \in heap : e.priority <= replaced[1]

(***************************************************************************)
(* Claims about the buffers of the genetic engine (SpecGenetic)            *)
(***************************************************************************)
\* C21: genetic_Create sizes the newborn buffer to exactly 2*floor(P/4)
\* entities, and genetic_Generation writes every offspring inside it.
C21_NewbornBuffer ==
    buffers.newborn = "live" =>
       /\ Cardinality(DOMAIN newborn) = entitySize * (2 * (populationSize \div 4))
       /\ \A k \in 1..Len(born) :
             /\ genetic_Newborn(born[k], entitySize) >= 0
             /\ genetic_Newborn(born[k], entitySize) + entitySize
                   <= Cardinality(DOMAIN newborn)

\* C22: within a generation no slot of the population is overwritten before
\* the last breed call has returned, and no write of the replacement or of
\* the randomization changes the content of a slot that bred.
C22_ParentsSurvive ==
    /\ pc = "breed" => (killed = << >> /\ randomized = << >>)
    /\ ~clobbered

\* C27: the storage of distinct slots is disjoint, a write to one slot
\* changes the content of no other, and slot i lies entitySize*i bytes from
\* the start of its buffer.
C27_Disjoint ==
    /\ ~spilled
    /\ \A i \in 0..(populationSize - 1) :
          genetic_Entity(i, entitySize) = entitySize * i
    /\ \A i \in 0..(populationSize \div 2) :
          genetic_Newborn(i, entitySize) = entitySize * i

\* C28: the heap is empty whenever no generation is running, it never holds
\* more than P elements, and it is not empty where genetic_Generation pops:
\* it holds two elements or more before a pair of parents is popped and one
\* or more before a slot to replace or to randomize is popped.
C28_HeapBounds ==
    /\ Cardinality(heap) <= populationSize
    /\ pc \notin {"breed", "kill", "random"} => heap = {}
    /\ pc = "breed" => Cardinality(heap) >= 2
    /\ pc \in {"kill", "random"} => heap # {}

\* C28 happens: a generation of a population that is not a multiple of four
\* has popped every slot and returned
C28_Emptied ==
    /\ Returned
    /\ populationSize % 4 # 0
    /\ Len(Handled) = populationSize
    /\ heap = {}

(***************************************************************************)
(* Claims about the clock of creature_Animate (SpecMotion)                 *)
(***************************************************************************)
\* the action slots whose boundaries lie after the clock from and not after
\* the clock to, in order: the boundary k*ACTION_TIME ends the slot
\* (k - 1) % MAX_ACTIONS
SlotsBetween(from, to) ==
    [j \in 1..(to \div ACTION_TIME - from \div ACTION_TIME) |->
        (from \div ACTION_TIME + j - 1) % MAX_ACTIONS]

\* C23: a creature_Animate(dt) of a living creature advances the clock by
\* exactly dt and triggers exactly the slots whose boundaries lie between
\* the old and the new clock, in order, the index wrapping at MAX_ACTIONS:
\* none if no boundary is crossed, each slot once over BEHAVIOR_TIME from 0.
C23_ExactClock ==
    (motionOp.op = "Animate" /\ motionOp.energy <= MAX_ENERGY) =>
       /\ body.clock = motionOp.clock + motionOp.dt
       /\ motionOp.trace = SlotsBetween(motionOp.clock, motionOp.clock + motionOp.dt)

(***************************************************************************)
(* Claims about the mutation kinds (SpecCreature)                          *)
(***************************************************************************)
\* C24: wherever creature_Mutate can be called it can select every one of
\* the twelve kinds of the enum MUTATION, BEHAVIOR_ADD and BEHAVIOR_REMOVE
\* included.
C24_AllKinds ==
    pending = 0 =>
       \A kind \in NODE_ADD..BEHAVIOR_REMOVE :
          ENABLED (creature_Mutate /\ lastOp'.kind = kind)

\* C30: creature_Breed copies node slot i and muscle slot i of the child
\* only from a parent that has more than i nodes, respectively muscles,
\* whatever the parents and the random choices.
C30_PopulatedSlots == lastOp.op = "Breed" => ~lastOp.unpopulated

\* C30 happens: creature_Breed made a child with more nodes and more muscles
\* than one of its parents has
C30_Uneven ==
    /\ lastOp.op = "Breed"
    /\ ~lastOp.mutated
    /\ \E counts \in lastOp.from :
          counts[1] < creature.nNodes /\ counts[2] < creature.nMuscles

(***************************************************************************)
(* Claims about the behavior (SpecBehavior)                                *)
(***************************************************************************)
\* C29: after any sequence of creature_CreateRandom, creature_Mutate and
\* creature_Breed every behavior slot holds MUSCLE_NONE or the index of an
\* existing muscle, so that creature_Animate toggles live muscles only.
C29_LiveActions ==
    \A j \in 0..(MAX_ACTIONS - 1) :
        program.action[j] = MUSCLE_NONE \/ program.action[j] < program.nMuscles

(***************************************************************************)
(* Claims about the fitness evaluation (SpecFitness, SpecFitnessFair)      *)
(***************************************************************************)
\* C25: the rest phase of WalkFitness ends only when creature_Rest reports
\* that the creature is at rest, so the first trial starts from a creature
\* without horizontal velocity.
C25_RestedBeforeTrials ==
    (walk.pc = "trials" /\ walk.trial = 0) =>
       /\ walk.rested = "rest"
       /\ Rested(body)

\* C26: creature_Fitness terminates for every creature: the loop of the
\* rest phase is left and the trials end, also for a creature that is at
\* rest and stays at rest.
C26_Terminates == (walk.pc = "rest") ~> (walk.pc = "idle")


=============================================================================
